---- MODULE Spec2Model ----
(***************************************************************************)
(* Venue search of the meethalfway application: the venue cache            *)
(* (server/storage.ts), the POST /api/plans/:id/venues handler             *)
(* (server/routes.ts) with preference scoring (server/services/ai.ts) and  *)
(* travel estimates, the client's venue query with its                     *)
(* restaurant -> cafe -> bar fallback (client/src/pages/results.tsx),      *)
(* plan creation and update (POST /api/plans, PATCH /api/plans/:id), the   *)
(* participant form (client/src/pages/home.tsx), the midpoint and the      *)
(* distance (server/services/midpoint.ts, client/src/lib/midpoint.ts), and *)
(* the itinerary toggles of two clients on one plan.                       *)
(*                                                                         *)
(* Conventions.  An optional value is a set with at most one element: {}   *)
(* is JavaScript's undefined (a key the payload does not carry) or SQL's   *)
(* NULL, {x} is the value x.  Ratings are counted in hundredths, so the    *)
(* provider's number 4.0 and the decimal(3,2) column's "4.00" are both    *)
(* 400.  A list is a sequence.                                             *)
(***************************************************************************)
EXTENDS Integers, Sequences, FiniteSets, TLC

VARIABLES
    venuesTable,   \* the rows of the venues table (the venue cache)
    plans,         \* the plans table: plan id -> row
    req,           \* the venue-search requests being handled: handler -> state
    lastUpsert,    \* history: venue id -> the payload of the upsert that completed last
    client,        \* the Results page: filters, the venue query's position and log
    planReq,       \* the POST /api/plans request being handled, and its log
    estimate,      \* a travel estimate computed from a distance
    home,          \* the Home page: the participant form and the clock it reads
    geo,           \* a midpoint computed from a list of coordinates and from a reordering of it
    itinerary      \* the Results pages of two clients: their copy of the plan, their PATCH

vars == <<venuesTable, plans, req, lastUpsert, client, planReq, estimate, home, geo, itinerary>>

----------------------------------------------------------------------------
(* Bounds *)

\* The longest list the place-search provider returns in the model; venue
\* identifiers are 1..MaxVenues.
MaxVenues == 2

\* Concurrent venue-search requests in the cache specification.
NumHandlers == 2

----------------------------------------------------------------------------
(* Values *)

undefined == {}
null == {}

VenueIds == 1..MaxVenues

\* Ratings the provider reports (hundredths): below and at the client's
\* default threshold of 4.0.
Ratings == {350, 400}

PriceLevels == {0, 2}

\* PlaceDetails as searchNearby builds it: the keys rating and priceLevel
\* are undefined when the provider's place has none.
PlaceDetails ==
    [id : VenueIds,
     rating : {undefined} \cup {{r} : r \in Ratings},
     priceLevel : {undefined} \cup {{p} : p \in PriceLevels}]

RECURSIVE SeqsUpTo(_, _)
\* The sequences over S of length at most n.
SeqsUpTo(S, n) ==
    IF n = 0 THEN {<<>>}
    ELSE LET shorter == SeqsUpTo(S, n - 1)
         IN  shorter \cup {Append(s, x) : s \in shorter, x \in S}

Range(s) == {s[i] : i \in DOMAIN s}

\* The lists searchNearby can return: at most MaxVenues places.  Place
\* identifiers are interchangeable, so the place at position i is place i.
ProviderLists ==
    {s \in SeqsUpTo(PlaceDetails, MaxVenues) : \A i \in DOMAIN s : s[i].id = i}

\* searchNearby either returns a list (status OK, or ZERO_RESULTS: the empty
\* list) or throws (no API key, transport error, HTTP error, another status).
SearchFailed == [ok |-> FALSE, places |-> <<>>]
SearchOutcomes == {SearchFailed} \cup {[ok |-> TRUE, places |-> s] : s \in ProviderLists}

----------------------------------------------------------------------------
(* The venue cache: server/storage.ts *)

\* INSERT INTO venues VALUES (venue): an undefined key takes the column's
\* default, NULL; ai_analysis is not a key of the provider's payload.
InsertRow(venue) ==
    [id |-> venue.id, rating |-> venue.rating, priceLevel |-> venue.priceLevel,
     aiAnalysis |-> null]

\* A plausible bug: the conflicting row is replaced by a fresh one.
ConflictUpdateWholeRow(row, venue) ==
    [id |-> venue.id, rating |-> venue.rating, priceLevel |-> venue.priceLevel,
     aiAnalysis |-> null]

\* ON CONFLICT (id) DO UPDATE SET {...venue, updatedAt}: Drizzle leaves a
\* column alone when the key's value is undefined, so a key the payload does
\* not carry keeps the row's value.
ConflictUpdate(row, venue) ==
    [row EXCEPT !.rating = IF venue.rating = undefined THEN @ ELSE venue.rating,
                !.priceLevel = IF venue.priceLevel = undefined THEN @ ELSE venue.priceLevel]

\* DatabaseStorage.upsertVenue: the table after the statement.
upsertVenue(table, venue) ==
    LET conflict == {r \in table : r.id = venue.id}
    IN  IF conflict = {}
        THEN table \cup {InsertRow(venue)}
        ELSE (table \ conflict) \cup {ConflictUpdate(r, venue) : r \in conflict}

\* The row a statement RETURNING gives back (and getVenue): the row of that id.
RowOf(table, id) == CHOOSE r \in table : r.id = id

\* DatabaseStorage.updateVenue(id, {aiAnalysis}): only ai_analysis is set.
updateVenue(table, id, analysis) ==
    {IF r.id = id THEN [r EXCEPT !.aiAnalysis = {analysis}] ELSE r : r \in table}

----------------------------------------------------------------------------
(* Plans and search requests *)

PlanIds == {"p1"}

Coordinate == [lat |-> 0, lng |-> 0]

\* A plans row as POST /api/plans stores it, and the same row after a PATCH
\* cleared its midpoint (the column is nullable).
PlanWithMidpoint ==
    [participants |-> <<[id |-> 1, coordinates |-> {Coordinate}],
                        [id |-> 2, coordinates |-> {Coordinate}]>>,
     midpoint |-> {Coordinate},
     naturalLanguageQuery |-> undefined,
     hints |-> undefined,
     selectedVenues |-> <<>>,
     filters |-> undefined]

PlanWithoutMidpoint == [PlanWithMidpoint EXCEPT !.midpoint = null]

StoredPlans == {PlanWithMidpoint, PlanWithoutMidpoint}

\* storage.getPlan: the row, or undefined for an unknown id.
getPlan(table, id) == IF id \in DOMAIN table THEN {table[id]} ELSE undefined

\* A plausible bug: only the plan's existence is tested.
HasMidpointUnchecked(plan) == plan # undefined

\* Line 82, negated: plan && plan.midpoint.
HasMidpoint(plan) == plan # undefined /\ \A p \in plan : p.midpoint # null

\* The request body of POST /api/plans/:id/venues (radius only reaches the
\* provider, whose answer is drawn freely, and is left out).
Body(type, minRating, priceLevel) ==
    [type |-> type, minRating |-> minRating, priceLevel |-> priceLevel]

\* searchVenuesSchema: minRating within 1..5, every priceLevel within 0..4.
SchemaAccepts(body) ==
    /\ \A m \in body.minRating : 100 <= m /\ m <= 500
    /\ \A l \in body.priceLevel : \A i \in DOMAIN l : 0 <= l[i] /\ l[i] <= 4

\* The bodies a caller of the API sends in the model: no threshold or the
\* threshold 4.0, with no price set, an empty one or [0]; and a threshold the
\* schema rejects.
DirectBodies ==
    {Body(undefined, m, p) : m \in {undefined, {400}},
                            p \in {undefined, {<<>>}, {<<0>>}}}
    \cup {Body(undefined, {0}, undefined)}

----------------------------------------------------------------------------
(* The pure steps of the handler: server/routes.ts *)

\* parseFloat(v.rating || "0"), in hundredths.
RatingOrZero(v) == IF v.rating = null THEN 0 ELSE CHOOSE r \in v.rating : TRUE

\* A plausible bug: an estimate for every participant, geocoded or not.
TravelTimesOfAll(plan) ==
    [i \in DOMAIN plan.participants |-> [participantId |-> plan.participants[i].id]]

\* The travel estimates of one venue: one per participant with coordinates
\* (the distance and the minutes are not modelled here).
TravelTimes(plan) ==
    LET RECURSIVE Walk(_)
        Walk(ps) ==
            IF ps = <<>> THEN <<>>
            ELSE IF Head(ps).coordinates = undefined THEN Walk(Tail(ps))
            ELSE <<[participantId |-> Head(ps).id]>> \o Walk(Tail(ps))
    IN  Walk(plan.participants)

WithTravelTimes(row, plan) ==
    [id |-> row.id, rating |-> row.rating, priceLevel |-> row.priceLevel,
     aiAnalysis |-> row.aiAnalysis, travelTimes |-> TravelTimes(plan)]

\* A plausible bug: a strict comparison drops a venue rated exactly the threshold.
MinRatingKeepsStrict(v, minRating) ==
    v.rating # null /\ RatingOrZero(v) > minRating

\* v.rating && parseFloat(v.rating) >= searchParams.minRating
MinRatingKeeps(v, minRating) ==
    v.rating # null /\ RatingOrZero(v) >= minRating

\* A plausible bug: a truthiness test drops price level 0.
PriceLevelKeepsTruthy(v, levels) ==
    /\ v.priceLevel # null
    /\ v.priceLevel # {0}
    /\ \E i \in DOMAIN levels : {levels[i]} = v.priceLevel

\* v.priceLevel !== null && searchParams.priceLevel.includes(v.priceLevel)
PriceLevelKeeps(v, levels) ==
    /\ v.priceLevel # null
    /\ \E i \in DOMAIN levels : {levels[i]} = v.priceLevel

\* Lines 157-170: the minRating filter when a threshold is set, then the
\* priceLevel filter when a non-empty set is requested.
ApplyFilters(venues, body) ==
    LET byRating ==
            IF body.minRating # undefined
            THEN LET m == CHOOSE x \in body.minRating : TRUE
                     KeepR(v) == MinRatingKeeps(v, m)
                 IN  SelectSeq(venues, KeepR)
            ELSE venues
        levels == IF body.priceLevel = undefined THEN <<>>
                  ELSE CHOOSE l \in body.priceLevel : TRUE
        KeepP(v) == PriceLevelKeeps(v, levels)
    IN  IF Len(levels) > 0 THEN SelectSeq(byRating, KeepP) ELSE byRating

\* Where a stable descending sort puts x in the sorted list s: after every
\* element that does not sort after it.
RECURSIVE InsertByRating(_, _)
InsertByRating(s, x) ==
    IF s = <<>> THEN <<x>>
    ELSE IF RatingOrZero(Head(s)) >= RatingOrZero(x)
         THEN <<Head(s)>> \o InsertByRating(Tail(s), x)
         ELSE <<x>> \o s

RECURSIVE SortAscending(_)
\* A plausible bug: the comparator's operands swapped, an ascending sort.
SortAscending(s) ==
    IF s = <<>> THEN <<>>
    ELSE LET rest == SortAscending(Tail(s))
             RECURSIVE Ins(_)
             Ins(t) == IF t = <<>> THEN <<Head(s)>>
                       ELSE IF RatingOrZero(Head(t)) < RatingOrZero(Head(s))
                            THEN <<Head(t)>> \o Ins(Tail(t))
                            ELSE <<Head(s)>> \o t
         IN  Ins(rest)

RECURSIVE SortByRating(_)
\* filteredVenues.sort((a, b) => parseFloat(b.rating || "0") -
\* parseFloat(a.rating || "0")): a stable sort, descending.
SortByRating(s) ==
    IF s = <<>> THEN <<>>
    ELSE InsertByRating(SortByRating(SubSeq(s, 1, Len(s) - 1)), s[Len(s)])

----------------------------------------------------------------------------
(* Preference scoring: server/services/ai.ts, generatePersonalizedRecommendations *)

\* plan.preferences?.naturalLanguageQuery is truthy: a non-empty string.
HasQuery(plan) ==
    plan.naturalLanguageQuery # undefined /\ plan.naturalLanguageQuery # {""}

\* The scores the model puts in a rec: below, within and above 0..100.
RawScores == {-20, 50, 120}

\* One element of the model's JSON reply: the keys reasoning and highlights
\* are both there or both missing.
ScorerRecs ==
    {[venueId |-> v, matchScore |-> m, reasoning |-> t,
      highlights |-> IF t = undefined THEN undefined ELSE {<<"quiet">>}] :
        v \in VenueIds, m \in RawScores, t \in {undefined, {"fits"}}}

\* The call resolves to a list of recs (of none, one or two elements in the
\* model), or it fails: the request throws, or the reply is no JSON or holds
\* no array.
ScorerFailed == [ok |-> FALSE, recs |-> <<>>]
ScorerReplies ==
    {ScorerFailed} \cup
    {[ok |-> TRUE, recs |-> r] :
        r \in {<<>>} \cup {<<a>> : a \in ScorerRecs}
                    \cup {<<a, b>> : a \in ScorerRecs, b \in ScorerRecs}}

Max(a, b) == IF a >= b THEN a ELSE b
Min(a, b) == IF a <= b THEN a ELSE b

\* A plausible bug: the score is taken as the model gave it.
ClampScoreMissing(m) == m

\* Line 522: Math.max(0, Math.min(100, rec.matchScore || 0)).
ClampScore(m) == Max(0, Min(100, m))

\* Line 528 (and 538): sort((a, b) => b.matchScore - a.matchScore), a
\* stable sort, descending.
SortByMatchScore(recommendations) ==
    LET RECURSIVE Insert(_, _)
        Insert(t, x) ==
            IF t = <<>> THEN <<x>>
            ELSE IF Head(t).matchScore >= x.matchScore
                 THEN <<Head(t)>> \o Insert(Tail(t), x)
                 ELSE <<x>> \o t
        RECURSIVE Sort(_)
        Sort(t) ==
            IF t = <<>> THEN <<>>
            ELSE Insert(Sort(SubSeq(t, 1, Len(t) - 1)), t[Len(t)])
    IN  Sort(recommendations)

\* routes.ts, line 193: the same sort on aiRecommendation.matchScore.
SortByAiMatchScore(venues) ==
    LET RECURSIVE Insert(_, _)
        Insert(t, x) ==
            IF t = <<>> THEN <<x>>
            ELSE IF Head(t).aiRecommendation.matchScore >= x.aiRecommendation.matchScore
                 THEN <<Head(t)>> \o Insert(Tail(t), x)
                 ELSE <<x>> \o t
        RECURSIVE Sort(_)
        Sort(t) ==
            IF t = <<>> THEN <<>>
            ELSE Insert(Sort(SubSeq(t, 1, Len(t) - 1)), t[Len(t)])
    IN  Sort(venues)

\* Lines 516-526: the rec of a venue of the list becomes a recommendation
\* (venues.find: the first venue of that id); a rec of another id is dropped.
Recommend(venues, rec) ==
    LET found == SelectSeq(venues, LAMBDA v : v.id = rec.venueId)
    IN  IF found = <<>> THEN <<>>
        ELSE <<[venue |-> Head(found),
                matchScore |-> ClampScore(rec.matchScore),
                reasoning |-> IF rec.reasoning = undefined
                              THEN "Good match for your preferences"
                              ELSE CHOOSE t \in rec.reasoning : TRUE,
                highlights |-> IF rec.highlights = undefined THEN <<>>
                               ELSE CHOOSE l \in rec.highlights : TRUE]>>

\* Line 535: Math.round((parseFloat(venue.rating || "3") / 5) * 100), the
\* rating in hundredths; Math.round rounds a half up.
FallbackScore(v) ==
    LET rating == IF v.rating = null THEN 300 ELSE CHOOSE r \in v.rating : TRUE
    IN  (2 * rating + 5) \div 10

\* Lines 533-538: the recommendations the catch returns.
FallbackRecommendations(venues) ==
    SortByMatchScore([i \in DOMAIN venues |->
                         [venue |-> venues[i],
                          matchScore |-> FallbackScore(venues[i]),
                          reasoning |-> "Standard recommendation based on rating",
                          highlights |-> <<>>]])

\* generatePersonalizedRecommendations: lines 512-528 on a reply, lines
\* 530-539 on a failure.  It never throws.
generatePersonalizedRecommendations(venues, reply) ==
    IF ~reply.ok THEN FallbackRecommendations(venues)
    ELSE LET RECURSIVE Walk(_)
             Walk(recs) ==
                 IF recs = <<>> THEN <<>>
                 ELSE Recommend(venues, Head(recs)) \o Walk(Tail(recs))
         IN  SortByMatchScore(Walk(reply.recs))

\* routes.ts, lines 182-193: every recommendation becomes a venue of the
\* response, with the travel estimates of the filtered venue of that id,
\* and the list is sorted by match score again.
VenuesWithAI(filteredVenues, recommendations) ==
    SortByAiMatchScore(
        [i \in DOMAIN recommendations |->
            LET rec == recommendations[i]
                same == SelectSeq(filteredVenues, LAMBDA v : v.id = rec.venue.id)
            IN  [id |-> rec.venue.id, rating |-> rec.venue.rating,
                 priceLevel |-> rec.venue.priceLevel,
                 aiAnalysis |-> rec.venue.aiAnalysis,
                 travelTimes |-> IF same = <<>> THEN <<>> ELSE Head(same).travelTimes,
                 aiRecommendation |-> [matchScore |-> rec.matchScore,
                                       reasoning |-> rec.reasoning,
                                       highlights |-> rec.highlights]]])

----------------------------------------------------------------------------
(* POST /api/plans/:id/venues: server/routes.ts, lines 79-211 *)

Handlers == 1..NumHandlers

\* What analyzeVenue resolves to: the model's analysis, or the default it
\* returns from its own catch when the model call fails.
AnalysisResults == {"analysis", "fallback"}

NoResponse == [status |-> 0, venues |-> <<>>]
ErrorResponse(status) == [status |-> status, venues |-> <<>>]

Idle ==
    [pc |-> "idle", body |-> Body(undefined, undefined, undefined), plan |-> undefined,
     api |-> <<>>, tasks |-> <<>>, venues |-> <<>>, reply |-> undefined,
     res |-> NoResponse, calls |-> {}]

\* A plausible bug: the first Promise.all is not awaited.
NoTaskAwaited(r) == TRUE

\* Line 102: await Promise.all, every callback has returned.
AllTasksDone(r) == \A i \in DOMAIN r.tasks : r.tasks[i].pc = "done"

\* Lines 81-98: the plan is read; without a plan or a midpoint the handler
\* answers 404; a body the schema rejects throws into the catch (400);
\* otherwise searchNearby is called.  The handler's state after these lines.
AfterStart(planId, body) ==
    LET plan == getPlan(plans, planId)
    IN  IF ~HasMidpoint(plan)
        THEN [Idle EXCEPT !.pc = "done", !.body = body, !.plan = plan,
                          !.res = ErrorResponse(404)]
        ELSE IF ~SchemaAccepts(body)
        THEN [Idle EXCEPT !.pc = "done", !.body = body, !.plan = plan,
                          !.res = ErrorResponse(400)]
        ELSE [Idle EXCEPT !.pc = "search", !.body = body, !.plan = plan,
                          !.calls = {"searchNearby"}]

\* A request of a caller of the API arrives at handler h.
StartSearch(h, planId, body) ==
    /\ req[h].pc = "idle"
    /\ req' = [req EXCEPT ![h] = AfterStart(planId, body)]
    /\ UNCHANGED <<venuesTable, plans, lastUpsert, client, planReq, estimate, home, geo, itinerary>>

\* Lines 94-104 and 204-210: searchNearby throws, and the catch answers 400;
\* or it returns the places, and every place's callback calls upsertVenue.
ProviderReply(h, outcome) ==
    /\ req[h].pc = "search"
    /\ IF ~outcome.ok
       THEN req' = [req EXCEPT ![h].pc = "done", ![h].res = ErrorResponse(400)]
       ELSE req' = [req EXCEPT
                ![h].pc = "cache",
                ![h].api = outcome.places,
                ![h].tasks = [i \in DOMAIN outcome.places |->
                                 [pc |-> "upsert", venue |-> InsertRow(outcome.places[i])]],
                ![h].calls = IF outcome.places = <<>> THEN @ ELSE @ \cup {"upsertVenue"}]
    /\ UNCHANGED <<venuesTable, plans, lastUpsert, client, planReq, estimate, home, geo, itinerary>>

\* Lines 104-109: one place's upsert completes; a row without an analysis is
\* sent to analyzeVenue.
UpsertVenueStep(h, i) ==
    /\ req[h].pc = "cache"
    /\ i \in DOMAIN req[h].tasks
    /\ req[h].tasks[i].pc = "upsert"
    /\ LET venue == req[h].api[i]
           table == upsertVenue(venuesTable, venue)
           cachedVenue == RowOf(table, venue.id)
       IN  /\ venuesTable' = table
           /\ lastUpsert' = [lastUpsert EXCEPT ![venue.id] = {venue}]
           /\ req' = [req EXCEPT
                  ![h].tasks[i] = [pc |-> IF cachedVenue.aiAnalysis = null
                                            THEN "analyze" ELSE "done",
                                   venue |-> cachedVenue],
                  ![h].calls = IF cachedVenue.aiAnalysis = null
                               THEN @ \cup {"analyzeVenue"} ELSE @]
    /\ UNCHANGED <<plans, client, planReq, estimate, home, geo, itinerary>>

\* Lines 109-111: analyzeVenue resolves and updateVenue stores the analysis
\* (a single UPDATE of ai_analysis); the callback returns the row it got from
\* the upsert with the analysis added.
AnalyzeVenueStep(h, i, analysis) ==
    /\ req[h].pc = "cache"
    /\ i \in DOMAIN req[h].tasks
    /\ req[h].tasks[i].pc = "analyze"
    /\ venuesTable' = updateVenue(venuesTable, req[h].tasks[i].venue.id, analysis)
    /\ req' = [req EXCEPT ![h].tasks[i].pc = "done",
                           ![h].tasks[i].venue.aiAnalysis = {analysis}]
    /\ UNCHANGED <<plans, lastUpsert, client, planReq, estimate, home, geo, itinerary>>

\* Lines 122-155: once every callback of the first Promise.all has
\* returned, every venue gets its travel estimates.
AttachTravelTimes(h) ==
    /\ req[h].pc = "cache"
    /\ AllTasksDone(req[h])
    /\ LET plan == CHOOSE p \in req[h].plan : TRUE
       IN  req' = [req EXCEPT
                ![h].pc = "filter",
                ![h].venues = [i \in DOMAIN req[h].tasks |->
                                  WithTravelTimes(req[h].tasks[i].venue, plan)]]
    /\ UNCHANGED <<venuesTable, plans, lastUpsert, client, planReq, estimate, home, geo, itinerary>>

\* Lines 157-179: the filters; then a plan with a preference query has the
\* filtered venues sent to generatePersonalizedRecommendations.
FilterVenues(h) ==
    /\ req[h].pc = "filter"
    /\ req' = [req EXCEPT ![h].pc = "rank",
                           ![h].venues = ApplyFilters(@, req[h].body),
                           ![h].calls = IF \E p \in req[h].plan : HasQuery(p)
                                        THEN @ \cup {"generatePersonalizedRecommendations"}
                                        ELSE @]
    /\ UNCHANGED <<venuesTable, plans, lastUpsert, client, planReq, estimate, home, geo, itinerary>>

\* Lines 173 and 201-203: a plan without a preference query is answered
\* with the filtered venues sorted by rating.
RankByRating(h) ==
    /\ req[h].pc = "rank"
    /\ \A p \in req[h].plan : ~HasQuery(p)
    /\ req' = [req EXCEPT ![h].pc = "done",
                           ![h].res = [status |-> 200,
                                       venues |-> SortByRating(req[h].venues)]]
    /\ UNCHANGED <<venuesTable, plans, lastUpsert, client, planReq, estimate, home, geo, itinerary>>

\* Lines 173-195: the scoring call resolves, and the plan with a preference
\* query is answered with the recommended venues sorted by match score.
\* (The catch of line 196 is never entered: the call does not throw.)
RankByScore(h, reply) ==
    /\ req[h].pc = "rank"
    /\ \E p \in req[h].plan : HasQuery(p)
    /\ LET recommendations == generatePersonalizedRecommendations(req[h].venues, reply)
       IN  req' = [req EXCEPT
                ![h].pc = "done",
                ![h].reply = {reply},
                ![h].res = [status |-> 200,
                            venues |-> VenuesWithAI(req[h].venues, recommendations)]]
    /\ UNCHANGED <<venuesTable, plans, lastUpsert, client, planReq, estimate, home, geo, itinerary>>

\* The steps of the request handler h, given what the provider may answer.
HandlerStep(h, outcomes) ==
    \/ \E o \in outcomes : ProviderReply(h, o)
    \/ \E i \in VenueIds : UpsertVenueStep(h, i)
    \/ \E i \in VenueIds, a \in AnalysisResults : AnalyzeVenueStep(h, i, a)
    \/ AttachTravelTimes(h)
    \/ FilterVenues(h)
    \/ RankByRating(h)

\* The steps of the handler of a plan that may carry a preference query.
ScoredHandlerStep(h, outcomes, replies) ==
    \/ HandlerStep(h, outcomes)
    \/ \E reply \in replies : RankByScore(h, reply)

----------------------------------------------------------------------------
(* The Results page's venue query: client/src/pages/results.tsx, lines 281-351 *)

\* The longest list the provider returns to a search of the Results page.
MaxClientVenues == 1

\* The runs of the venue query the model follows.
MaxQueries == 3

\* lib/queryClient's apiRequest throws when the response is not 2xx.
apiRequestThrows(res) == res.status # 200

\* Line 316.
fallbackTypesCafeOnly == <<"cafe">>

fallbackTypes == <<"cafe", "bar">>

\* Line 299.
PrimaryType(venueTypes) ==
    IF Len(venueTypes) = 1 THEN {venueTypes[1]} ELSE undefined

\* Lines 310-315: an empty response to a search for restaurants.
ShouldFallBack(venues, primaryType) ==
    Len(venues) = 0 /\ primaryType = {"restaurant"}

\* useState, lines 281-286, with the query not yet run.
ClientWith(venueTypes, minRating) ==
    [pc |-> "idle", venueTypes |-> venueTypes, minRating |-> minRating,
     primaryType |-> undefined, next |-> 0, searches |-> <<>>,
     result |-> <<>>, outcome |-> "", dirty |-> FALSE, queries |-> 0]

ClientIdle == ClientWith(<<"restaurant">>, 400)

\* A search the query issued: its type and, once answered, the response's
\* status and venues and the number of places the provider had returned.
Issued(type) == [type |-> type, status |-> 0, found |-> 0, venues |-> <<>>]

\* The body of both apiRequest calls: lines 302-306 and 320-324.
ClientBody(type) == Body(type, {client.minRating}, undefined)

\* A plausible bug: the filters are set again to what they were.
FiltersAfterFallbackUnchanged(fallbackType) == <<"restaurant">>

\* Line 330: setFilters(prev => ({...prev, venueTypes: [fallbackType]})).
FiltersAfterFallback(fallbackType) == <<fallbackType>>

\* The queryFn returns: the query settles with a list.
Finish(log, venues, venueTypes, dirty) ==
    /\ req' = [req EXCEPT ![1] = Idle]
    /\ client' = [client EXCEPT !.pc = "done", !.searches = log, !.result = venues,
                                !.outcome = "success", !.venueTypes = venueTypes,
                                !.dirty = dirty]

\* Lines 318-324: the fallback search number k is sent.
TryFallback(log, k) ==
    /\ req' = [req EXCEPT ![1] = AfterStart("p1", ClientBody({fallbackTypes[k]}))]
    /\ client' = [client EXCEPT !.pc = "fallback", !.next = k,
                                !.searches = Append(log, Issued({fallbackTypes[k]}))]

\* Lines 297-306 and 350, 365-369: the query runs when the plan has a
\* midpoint, at first and again after the filters changed.  The model
\* follows the page for MaxQueries runs of the query.
QueryStart ==
    /\ client.pc = "idle" \/ (client.pc = "done" /\ client.dirty)
    /\ client.queries < MaxQueries
    /\ HasMidpoint(getPlan(plans, "p1"))
    /\ req[1].pc = "idle"
    /\ LET primaryType == PrimaryType(client.venueTypes)
       IN  /\ req' = [req EXCEPT ![1] = AfterStart("p1", ClientBody(primaryType))]
           /\ client' = [client EXCEPT !.pc = "primary", !.primaryType = primaryType,
                                       !.next = 0, !.searches = <<Issued(primaryType)>>,
                                       !.result = <<>>, !.outcome = "", !.dirty = FALSE,
                                       !.queries = @ + 1]
    /\ UNCHANGED <<venuesTable, plans, lastUpsert, planReq, estimate, home, geo, itinerary>>

\* Lines 307-348: a response arrives and the queryFn runs on to its next
\* request or to its return.
QueryReceive ==
    /\ client.pc \in {"primary", "fallback"}
    /\ req[1].pc = "done"
    /\ LET res == req[1].res
           n == Len(client.searches)
           log == [client.searches EXCEPT
                      ![n] = [@ EXCEPT !.status = res.status,
                                       !.found = Len(req[1].api),
                                       !.venues = res.venues]]
       IN  IF client.pc = "primary"
           THEN IF apiRequestThrows(res)
                THEN Finish(log, <<>>, client.venueTypes, FALSE)
                ELSE IF ShouldFallBack(res.venues, client.primaryType)
                THEN TryFallback(log, 1)
                ELSE Finish(log, res.venues, client.venueTypes, FALSE)
           ELSE IF ~apiRequestThrows(res) /\ Len(res.venues) > 0
                THEN Finish(log, res.venues, FiltersAfterFallback(fallbackTypes[client.next]), TRUE)
                ELSE IF client.next < Len(fallbackTypes)
                THEN TryFallback(log, client.next + 1)
                ELSE Finish(log, <<>>, client.venueTypes, FALSE)
    /\ UNCHANGED <<venuesTable, plans, lastUpsert, planReq, estimate, home, geo, itinerary>>

----------------------------------------------------------------------------
(* Plan creation and update: server/routes.ts, lines 14-62 and 213-223 *)

\* The preferences of a request body: none, structured hints without a
\* query, an empty query, and a query without and with hints of the user.
NoHints == <<>>
Preferences(query, hints) == [naturalLanguageQuery |-> query, hints |-> hints]
InputPreferences ==
    {undefined,
     {Preferences(undefined, <<"vegan">>)},
     {Preferences({""}, NoHints)},
     {Preferences({"quiet"}, NoHints)},
     {Preferences({"quiet"}, <<"vegan">>)}}

\* The bodies of POST /api/plans in the model: one or two participants.
CreateInputs ==
    [participants : {<<[id |-> 1, location |-> "a"]>>,
                     <<[id |-> 1, location |-> "a"], [id |-> 2, location |-> "b"]>>},
     preferences : InputPreferences]

\* createPlanSchema: between 2 and 10 participants.
CreateSchemaAccepts(input) ==
    Len(input.participants) >= 2 /\ Len(input.participants) <= 10

\* geocodeAddress returns the coordinates of the first result, or throws.
GeocodeFailed == {}
GeocodeResults == {GeocodeFailed, {Coordinate}}

\* A plausible bug: Promise.allSettled, the request fails only when no
\* location geocodes.
AnyGeocodeFailedOnlyAll(results) == \A i \in DOMAIN results : results[i] = GeocodeFailed

\* Lines 19-28: Promise.all rejects when one geocodeAddress throws.
AnyGeocodeFailed(results) == \E i \in DOMAIN results : results[i] = GeocodeFailed

\* Line 32: participantsWithCoords.map(p => p.coordinates!), the coordinates
\* of the participants, all of which have some here.
CoordinatesOf(participants) ==
    LET geocoded == SelectSeq(participants, LAMBDA p : p.coordinates # undefined)
    IN  [i \in DOMAIN geocoded |-> CHOOSE c \in geocoded[i].coordinates : TRUE]

\* services/midpoint.ts.  Angles are whole numbers of thousandths of a
\* degree.  The arithmetic is exact: the rounding of the floating-point
\* operations is not modelled.

Abs(x) == IF x < 0 THEN -x ELSE x

\* 0 / 0, and every operation on it.
NaN == 999999

\* Math.cos and Math.sin of an angle, for the multiples of 90 degrees.
Cos(angle) ==
    IF angle = 0 THEN 1
    ELSE IF Abs(angle) = 180000 THEN -1
    ELSE 0
Sin(angle) ==
    IF angle = 90000 THEN 1
    ELSE IF angle = -90000 THEN -1
    ELSE 0

\* Lines 28-33: the unit vector of a coordinate, in twelfths, so that the
\* mean of two, three or four of them is a whole number.
UnitVector(coord) ==
    [x |-> 12 * Cos(coord.lat) * Cos(coord.lng),
     y |-> 12 * Cos(coord.lat) * Sin(coord.lng),
     z |-> 12 * Sin(coord.lat)]

\* A plausible bug: the first coordinate counts twice.
RECURSIVE VectorSumFirstTwice(_)
VectorSumFirstTwice(coordinates) ==
    IF Len(coordinates) = 0 THEN [x |-> 0, y |-> 0, z |-> 0]
    ELSE LET sum == VectorSumFirstTwice(SubSeq(coordinates, 1, Len(coordinates) - 1))
             v == UnitVector(coordinates[Len(coordinates)])
             k == IF Len(coordinates) = 1 THEN 2 ELSE 1
         IN  [x |-> sum.x + k * v.x, y |-> sum.y + k * v.y, z |-> sum.z + k * v.z]

\* Lines 25-34: x, y and z after the forEach, which adds the vectors in the
\* order of the list.
RECURSIVE VectorSum(_)
VectorSum(coordinates) ==
    IF Len(coordinates) = 0 THEN [x |-> 0, y |-> 0, z |-> 0]
    ELSE LET sum == VectorSum(SubSeq(coordinates, 1, Len(coordinates) - 1))
             v == UnitVector(coordinates[Len(coordinates)])
         IN  [x |-> sum.x + v.x, y |-> sum.y + v.y, z |-> sum.z + v.z]

\* Lines 36-38: x /= coordinates.length.
Divide(a, n) == IF n = 0 THEN NaN ELSE a \div n

\* Line 41: Math.sqrt, to the whole number below.
Sqrt(n) == CHOOSE r \in 0..n : r * r <= n /\ (r + 1) * (r + 1) > n

\* Lines 40-46: Math.atan2 in thousandths of a degree, for the directions
\* whose components are as 0:1, 1:1, 1:2 and 1:3.
Atan2(y, x) ==
    IF y = NaN \/ x = NaN THEN NaN
    ELSE LET a == Abs(y)
             b == Abs(x)
             acute == IF a = 0 THEN 0
                      ELSE IF b = 0 THEN 90000
                      ELSE IF a = b THEN 45000
                      ELSE IF 2 * a = b THEN 26565
                      ELSE IF a = 2 * b THEN 63435
                      ELSE IF 3 * a = b THEN 18435
                      ELSE 71565
             half == IF x >= 0 THEN acute ELSE 180000 - acute
         IN  IF y >= 0 THEN half ELSE -half

\* Lines 23-47: three coordinates or more.
Centroid(coordinates) ==
    LET sum == VectorSum(coordinates)
        x == Divide(sum.x, Len(coordinates))
        y == Divide(sum.y, Len(coordinates))
        z == Divide(sum.z, Len(coordinates))
        centralLng == Atan2(y, x)
        centralSqrt == IF x = NaN THEN NaN ELSE Sqrt(x * x + y * y)
        centralLat == Atan2(z, centralSqrt)
    IN  [lat |-> centralLat, lng |-> centralLng]

\* A plausible bug: a single coordinate comes back with its fields swapped.
SingleCoordinateSwapped(coordinates) ==
    [lat |-> coordinates[1].lng, lng |-> coordinates[1].lat]

\* Lines 11-13: return coordinates[0].
SingleCoordinate(coordinates) == coordinates[1]

\* A plausible bug: the longitude of the first coordinate is returned.
MeanOfTwoLatOnly(coordinates) ==
    [lat |-> (coordinates[1].lat + coordinates[2].lat) \div 2,
     lng |-> coordinates[1].lng]

\* Lines 16-21: the mean of the latitudes and the mean of the longitudes.
\* The coordinates of the model are even numbers of thousandths.
MeanOfTwo(coordinates) ==
    [lat |-> (coordinates[1].lat + coordinates[2].lat) \div 2,
     lng |-> (coordinates[1].lng + coordinates[2].lng) \div 2]

\* A plausible bug: no check of the list's length.
calculateMidpointNeverThrows(coordinates) == FALSE

\* Lines 7-9: an empty list throws Error("At least one coordinate is
\* required").
calculateMidpointThrows(coordinates) == Len(coordinates) = 0

\* calculateMidpoint, lines 11-47, on a list that did not throw.
calculateMidpoint(coordinates) ==
    IF Len(coordinates) = 1 THEN SingleCoordinate(coordinates)
    ELSE IF Len(coordinates) = 2 THEN MeanOfTwo(coordinates)
    ELSE Centroid(coordinates)

\* client/src/lib/midpoint.ts: the same check and the same single
\* coordinate; otherwise the mean of all latitudes and of all longitudes.
RECURSIVE SumOf(_, _)
SumOf(coordinates, field) ==
    IF Len(coordinates) = 0 THEN 0
    ELSE SumOf(SubSeq(coordinates, 1, Len(coordinates) - 1), field)
         + coordinates[Len(coordinates)][field]

previewMidpoint(coordinates) ==
    IF Len(coordinates) = 1 THEN SingleCoordinate(coordinates)
    ELSE [lat |-> Divide(SumOf(coordinates, "lat"), Len(coordinates)),
          lng |-> Divide(SumOf(coordinates, "lng"), Len(coordinates))]

\* What a call comes to: the error thrown, or the coordinate returned.
MidpointThrown == [thrown |-> TRUE, returned |-> undefined]
MidpointOf(coordinates) ==
    IF calculateMidpointThrows(coordinates) THEN MidpointThrown
    ELSE [thrown |-> FALSE, returned |-> {calculateMidpoint(coordinates)}]
PreviewMidpointOf(coordinates) ==
    IF calculateMidpointThrows(coordinates) THEN MidpointThrown
    ELSE [thrown |-> FALSE, returned |-> {previewMidpoint(coordinates)}]

\* What the parsing model's call comes to: a reply with hints, or a failure.
ParserOutcomes == {"parsed", "failed"}

\* A plausible bug: the catch returns an empty profile, without the query.
parseUserPreferencesDropsQuery(input, outcome) ==
    IF outcome = "failed"
    THEN Preferences(undefined, NoHints)
    ELSE Preferences({input}, <<"casual">>)

\* parseUserPreferences: lines 382-390 on a reply, lines 394-398 from the
\* catch.  It never throws.
parseUserPreferences(input, outcome) ==
    IF outcome = "failed"
    THEN Preferences({input}, NoHints)
    ELSE Preferences({input}, <<"casual">>)

PlanRequestIdle ==
    [pc |-> "idle", input |-> undefined, geocoded |-> <<>>, participants |-> <<>>,
     midpoint |-> undefined, parsed |-> undefined, created |-> undefined,
     status |-> 0, calls |-> {}]

\* storage.createPlan: a row with a fresh id.  preferences is
\* processedPreferences || data.preferences.
createPlan(table, id, r, preferences) ==
    [p \in DOMAIN table \cup {id} |->
        IF p = id
        THEN [participants |-> r.participants,
              midpoint |-> r.midpoint,
              naturalLanguageQuery |-> IF preferences = undefined THEN undefined
                                       ELSE (CHOOSE x \in preferences : TRUE).naturalLanguageQuery,
              hints |-> IF preferences = undefined THEN undefined
                        ELSE {(CHOOSE x \in preferences : TRUE).hints},
              selectedVenues |-> <<>>,
              filters |-> undefined]
        ELSE table[p]]

\* Lines 46-54: the plan is stored and returned.
StorePlan(r, preferences) ==
    \E id \in PlanIds \ DOMAIN plans :
        /\ plans' = createPlan(plans, id, r, preferences)
        /\ planReq' = [r EXCEPT !.pc = "done", !.created = {id}, !.status = 200]

\* Lines 16-22: a body the schema rejects is answered 400; otherwise every
\* participant's location is sent to geocodeAddress.
StartCreatePlan(input) ==
    /\ planReq.pc = "idle"
    /\ PlanIds \ DOMAIN plans # {}
    /\ planReq' = IF CreateSchemaAccepts(input)
                  THEN [planReq EXCEPT !.pc = "geocode", !.input = {input},
                                       !.calls = {"geocodeAddress"}]
                  ELSE [planReq EXCEPT !.pc = "done", !.input = {input}, !.status = 400]
    /\ UNCHANGED <<venuesTable, plans, req, lastUpsert, client, estimate, home, geo, itinerary>>

\* Lines 19-52: Promise.all settles.  A failed geocode is answered 400.
\* Otherwise the midpoint is computed, and a query is sent to
\* parseUserPreferences; without a query the plan is stored.
GeocodeReply(results) ==
    /\ planReq.pc = "geocode"
    /\ LET input == CHOOSE x \in planReq.input : TRUE
       IN  /\ DOMAIN results = DOMAIN input.participants
           /\ IF AnyGeocodeFailed(results)
              THEN /\ planReq' = [planReq EXCEPT !.pc = "done", !.geocoded = results,
                                                 !.status = 400]
                   /\ UNCHANGED plans
              ELSE LET withCoords ==
                           [i \in DOMAIN results |->
                               [id |-> input.participants[i].id, coordinates |-> results[i]]]
                       r == [planReq EXCEPT
                                !.geocoded = results,
                                !.participants = withCoords,
                                !.midpoint = {calculateMidpoint(CoordinatesOf(withCoords))}]
                   IN  IF \E x \in input.preferences : HasQuery(x)
                       THEN /\ planReq' = [r EXCEPT !.pc = "parse",
                                                     !.calls = @ \cup {"parseUserPreferences"}]
                            /\ UNCHANGED plans
                       ELSE StorePlan(r, input.preferences)
    /\ UNCHANGED <<venuesTable, req, lastUpsert, client, estimate, home, geo, itinerary>>

\* Lines 39-52: parseUserPreferences resolves and the plan is stored with
\* the profile it returned.
ParserReply(outcome) ==
    /\ planReq.pc = "parse"
    /\ LET input == CHOOSE x \in planReq.input : TRUE
           query == CHOOSE q \in (CHOOSE x \in input.preferences : TRUE).naturalLanguageQuery : TRUE
       IN  StorePlan([planReq EXCEPT !.parsed = {outcome}],
                     {parseUserPreferences(query, outcome)})
    /\ UNCHANGED <<venuesTable, req, lastUpsert, client, estimate, home, geo, itinerary>>

\* The bodies of PATCH /api/plans/:id in the model: one key each.  The
\* Results page sends selectedVenues; the route takes any body.
PatchBodies ==
    {[key |-> "selectedVenues", value |-> <<1>>],
     [key |-> "filters", value |-> {[minRating |-> 450]}],
     [key |-> "midpoint", value |-> null],
     [key |-> "participants", value |-> <<[id |-> 1, coordinates |-> undefined]>>]}

\* storage.updatePlan: UPDATE plans SET {...updates, updatedAt} WHERE id.
updatePlan(table, id, updates) ==
    [p \in DOMAIN table |->
        IF p # id THEN table[p]
        ELSE IF updates.key = "selectedVenues"
             THEN [table[p] EXCEPT !.selectedVenues = updates.value]
        ELSE IF updates.key = "filters"
             THEN [table[p] EXCEPT !.filters = updates.value]
        ELSE IF updates.key = "midpoint"
             THEN [table[p] EXCEPT !.midpoint = updates.value]
        ELSE [table[p] EXCEPT !.participants = updates.value]]

\* PATCH /api/plans/:id, lines 214-223.
UpdatePlan(id, updates) ==
    /\ plans' = updatePlan(plans, id, updates)
    /\ UNCHANGED <<venuesTable, req, lastUpsert, client, planReq, estimate, home, geo, itinerary>>

----------------------------------------------------------------------------
(* The Home page's participant form: client/src/pages/home.tsx *)

\* Date.now() reads 3 up to MaxNow in the model; the form's first two
\* entries have the ids "1" and "2".
MaxNow == 4

\* Lines 17-20: the form opens with two empty entries.
HomeInitial ==
    [participants |-> <<[id |-> 1, location |-> ""], [id |-> 2, location |-> ""]>>,
     now |-> 3, toast |-> FALSE]

\* Lines 40-47: a new entry whose id is the reading of the clock, while
\* the form holds fewer than ten.  The clock never runs backwards; two
\* readings may be equal.
addParticipant(now) ==
    /\ now >= home.now
    /\ home' = [home EXCEPT
                   !.now = now,
                   !.participants =
                       IF Len(@) < 10
                       THEN Append(@, [id |-> now, location |-> ""])
                       ELSE @]
    /\ UNCHANGED <<venuesTable, plans, req, lastUpsert, client, planReq, estimate, geo, itinerary>>

\* Lines 49-53: while the form holds more than two entries, those whose id
\* is not the given one are kept.
removeParticipant(id) ==
    /\ home' = [home EXCEPT
                   !.participants =
                       IF Len(@) > 2
                       THEN SelectSeq(@, LAMBDA p : p.id # id)
                       ELSE @]
    /\ UNCHANGED <<venuesTable, plans, req, lastUpsert, client, planReq, estimate, geo, itinerary>>

\* Lines 55-59: the entries of the given id take the location.
updateParticipant(id, location) ==
    /\ home' = [home EXCEPT
                   !.participants =
                       [i \in DOMAIN @ |-> IF @[i].id = id
                                           THEN [@[i] EXCEPT !.location = location]
                                           ELSE @[i]]]
    /\ UNCHANGED <<venuesTable, plans, req, lastUpsert, client, planReq, estimate, geo, itinerary>>

\* Line 62: the entries with a location.
validParticipants(participants) == SelectSeq(participants, LAMBDA p : p.location # "")

\* Lines 61-78: with fewer than two located entries a toast is shown and
\* nothing is sent; otherwise the located entries are posted, with the
\* preferences text as the query when there is one.
handleSubmit(preferences) ==
    IF Len(validParticipants(home.participants)) < 2
    THEN /\ home' = [home EXCEPT !.toast = TRUE]
         /\ UNCHANGED <<venuesTable, plans, req, lastUpsert, client, planReq, estimate, geo, itinerary>>
    ELSE StartCreatePlan(
             [participants |-> validParticipants(home.participants),
              preferences |-> IF preferences = "" THEN undefined
                              ELSE {Preferences({preferences}, NoHints)}])

----------------------------------------------------------------------------
(* Calls of calculateMidpoint: a list of coordinates and a reordering of it *)

NotCalled == [thrown |-> FALSE, returned |-> undefined]

GeoIdle ==
    [pc |-> "idle", coordinates |-> <<>>, reordered |-> <<>>,
     midpoint |-> NotCalled, reorderedMidpoint |-> NotCalled, preview |-> NotCalled]

\* The reorderings of a list of n elements.
Reorderings(n) ==
    {f \in [1..n -> 1..n] : \A i, j \in 1..n : f[i] = f[j] => i = j}
Reordered(coordinates, f) == [i \in DOMAIN coordinates |-> coordinates[f[i]]]

\* The server's function is called with the list and with the reordered
\* list, the client's with the list.
MidpointCalls(f) ==
    /\ geo.pc = "idle"
    /\ geo' = [geo EXCEPT
                  !.pc = "done",
                  !.reordered = Reordered(geo.coordinates, f),
                  !.midpoint = MidpointOf(geo.coordinates),
                  !.reorderedMidpoint = MidpointOf(Reordered(geo.coordinates, f)),
                  !.preview = PreviewMidpointOf(geo.coordinates)]
    /\ UNCHANGED <<venuesTable, plans, req, lastUpsert, client, planReq, estimate, home, itinerary>>

----------------------------------------------------------------------------
(* The itinerary: the Results pages of two clients on one plan *)

\* Each client toggles at most MaxToggles venues.
MaxToggles == 1

Clients == {"A", "B"}

\* A page whose plan query has not resolved yet.
PageLoading == [pc |-> "loading", plan |-> undefined, sent |-> <<>>, log |-> <<>>]

ItineraryIdle == [c \in Clients |-> PageLoading]

\* GET /api/plans/:id resolves the page's plan query (results.tsx, lines
\* 289-292): the page holds the selectedVenues the row had then.
PlanQueryResolves(c) ==
    /\ itinerary[c].pc = "loading"
    /\ "p1" \in DOMAIN plans
    /\ itinerary' = [itinerary EXCEPT ![c].pc = "idle",
                                      ![c].plan = {plans["p1"].selectedVenues}]
    /\ UNCHANGED <<venuesTable, plans, req, lastUpsert, client, planReq, estimate, home, geo>>

\* Lines 388-392: the venue is removed from the page's copy of
\* selectedVenues when it is there, appended otherwise.
Toggle(currentSelected, venueId) ==
    IF venueId \in Range(currentSelected)
    THEN SelectSeq(currentSelected, LAMBDA id : id # venueId)
    ELSE Append(currentSelected, venueId)

\* addToItinerary, lines 385-403: without a plan nothing happens; otherwise
\* the whole toggled list is sent in a PATCH.
addToItinerary(c, venueId) ==
    /\ itinerary[c].pc # "patching"
    /\ itinerary[c].plan # undefined
    /\ Len(itinerary[c].log) < MaxToggles
    /\ LET currentSelected == CHOOSE x \in itinerary[c].plan : TRUE
       IN  itinerary' = [itinerary EXCEPT
                            ![c].pc = "patching",
                            ![c].sent = Toggle(currentSelected, venueId),
                            ![c].log = Append(@, venueId)]
    /\ UNCHANGED <<venuesTable, plans, req, lastUpsert, client, planReq, estimate, home, geo>>

\* PATCH /api/plans/:id (routes.ts, lines 214-223) stores the list sent;
\* onSuccess (results.tsx, lines 359-361) invalidates the page's plan query,
\* which is fetched again.
PatchSelectedVenues(c) ==
    /\ itinerary[c].pc = "patching"
    /\ plans' = updatePlan(plans, "p1", [key |-> "selectedVenues", value |-> itinerary[c].sent])
    /\ itinerary' = [itinerary EXCEPT ![c].pc = "loading"]
    /\ UNCHANGED <<venuesTable, req, lastUpsert, client, planReq, estimate, home, geo>>

RestIdle == home = HomeInitial /\ geo = GeoIdle /\ itinerary = ItineraryIdle

----------------------------------------------------------------------------
(* Travel estimates: server/routes.ts, lines 129-143 *)

\* Latitudes of the travel specification run from 0 to MaxLat ten-thousandths
\* of a degree (about 15.6 km); so do the longitudes along the equator.
MaxLat == 1400

\* A plausible bug: the differences keep their sign.
calculateDistanceSigned(coord1, coord2) ==
    LET dLat == coord2.lat - coord1.lat
        dLng == coord2.lng - coord1.lng
    IN  IF dLng = 0 THEN (dLat * 111195) \div 100000
        ELSE (dLng * 111195) \div 100000

\* calculateDistance (services/midpoint.ts) for two points of one
\* meridian, where the haversine formula gives R * |dLat|, and for two
\* points of the equator, where it gives R * |dLng| (R = 6371 km, the
\* differences in radians): 111.195 km per degree.  Angles are counted in
\* ten-thousandths of a degree and the distance in units of 10 m.
calculateDistance(coord1, coord2) ==
    LET dLat == coord2.lat - coord1.lat
        dLng == coord2.lng - coord1.lng
    IN  IF dLng = 0 THEN (Abs(dLat) * 111195) \div 100000
        ELSE (Abs(dLng) * 111195) \div 100000

\* A plausible bug: the minutes are truncated, not rounded.
TimeMinutesTruncated(distance) == (distance * 1242742) \div 100000000

\* Line 136: Math.round((distance * 0.621371) / 30 * 60), the distance in
\* units of 10 m; Math.round rounds a half up.
TimeMinutes(distance) == (distance * 1242742 + 50000000) \div 100000000

NoEstimate ==
    [pc |-> "idle", participant |-> Coordinate, venue |-> Coordinate,
     distance |-> 0, timeMinutes |-> 0]

\* Lines 131-143: the estimate of one participant for one venue.
EstimateTravel ==
    /\ estimate.pc = "idle"
    /\ LET distance == calculateDistance(estimate.participant, estimate.venue)
       IN  estimate' = [estimate EXCEPT !.pc = "done", !.distance = distance,
                                        !.timeMinutes = TimeMinutes(distance)]
    /\ UNCHANGED <<venuesTable, plans, req, lastUpsert, client, planReq, home, geo, itinerary>>

\* The participant is at either end of the range, the venue anywhere in it,
\* along the meridian of longitude 0 or along the equator.
InitTravel ==
    /\ venuesTable = {}
    /\ plans = [p \in PlanIds |-> PlanWithMidpoint]
    /\ req = [h \in Handlers |-> Idle]
    /\ lastUpsert = [v \in VenueIds |-> undefined]
    /\ client = ClientIdle
    /\ planReq = PlanRequestIdle
    /\ estimate \in
           {[NoEstimate EXCEPT !.participant = [lat |-> a, lng |-> 0],
                               !.venue = [lat |-> b, lng |-> 0]] :
                a \in {0, MaxLat}, b \in 0..MaxLat}
           \cup
           {[NoEstimate EXCEPT !.participant = [lat |-> 0, lng |-> a],
                               !.venue = [lat |-> 0, lng |-> b]] :
                a \in {0, MaxLat}, b \in 0..MaxLat}
    /\ RestIdle

NextTravel == EstimateTravel

SpecTravel == InitTravel /\ [][NextTravel]_vars

----------------------------------------------------------------------------
(* The API specification: one request of a caller of the API *)

\* The cache before the request: empty, or holding place 1 from an earlier
\* search, analysed.
InitialCaches ==
    {{}, {[id |-> 1, rating |-> {450}, priceLevel |-> {2}, aiAnalysis |-> {"analysis"}]}}

Init ==
    /\ venuesTable \in InitialCaches
    /\ plans \in [PlanIds -> StoredPlans]
    /\ req = [h \in Handlers |-> Idle]
    /\ lastUpsert = [v \in VenueIds |-> undefined]
    /\ client = ClientIdle
    /\ planReq = PlanRequestIdle
    /\ estimate = NoEstimate
    /\ RestIdle

Next ==
    \/ \E planId \in PlanIds \cup {"unknown"}, body \in DirectBodies :
           StartSearch(1, planId, body)
    \/ HandlerStep(1, SearchOutcomes)

Spec == Init /\ [][Next]_vars

----------------------------------------------------------------------------
(* The client specification: the Results page and the handler of its requests *)

\* What the provider answers to a search of the Results page: it fails, or
\* returns at most MaxClientVenues places (the page requests no price
\* filter, and the places carry no price level).
ClientOutcomes ==
    {SearchFailed} \cup
    {[ok |-> TRUE, places |-> s] :
        s \in {t \in ProviderLists :
                  /\ Len(t) <= MaxClientVenues
                  /\ \A i \in DOMAIN t : t[i].priceLevel = undefined}}

\* The filters the user has chosen when the query runs: the default
\* (restaurants, 4.0), another single type, none or two types, and the
\* rating threshold 3.0.
ClientFilters ==
    {ClientWith(t, m) : t \in {<<"restaurant">>, <<"cafe">>, <<>>, <<"restaurant", "bar">>},
                        m \in {300, 400}}

InitClient ==
    /\ venuesTable \in InitialCaches
    /\ plans \in [PlanIds -> StoredPlans]
    /\ req = [h \in Handlers |-> Idle]
    /\ lastUpsert = [v \in VenueIds |-> undefined]
    /\ client \in ClientFilters
    /\ planReq = PlanRequestIdle
    /\ estimate = NoEstimate
    /\ RestIdle

NextClient ==
    \/ QueryStart
    \/ QueryReceive
    \/ HandlerStep(1, ClientOutcomes)

SpecClient == InitClient /\ [][NextClient]_vars

\* The page and the handler run on whenever they can, and the provider and
\* the analysis model answer.
SpecClientLive == InitClient /\ [][NextClient]_vars /\ WF_vars(NextClient)

----------------------------------------------------------------------------
(* The cache specification: concurrent requests whose places share an id *)

\* What the provider answers in the cache specification: one place, of
\* identifier 1, rated 4.0 or unrated, of price level 0 or of none.
CacheOutcomes ==
    {[ok |-> TRUE, places |-> <<v>>] :
        v \in {w \in PlaceDetails : /\ w.id = 1
                                    /\ w.rating \in {undefined, {400}}
                                    /\ w.priceLevel \in {undefined, {0}}}}

NextCache ==
    \/ \E h \in Handlers : StartSearch(h, "p1", Body(undefined, undefined, undefined))
    \/ \E h \in Handlers : HandlerStep(h, CacheOutcomes)

\* The cache starts empty, so that every row is the work of the requests.
InitCache == Init /\ venuesTable = {} /\ \A p \in PlanIds : HasMidpoint(getPlan(plans, p))

SpecCache == InitCache /\ [][NextCache]_vars

----------------------------------------------------------------------------
(* The ranking specification: requests on plans with a preference query *)

PlanWithQuery == [PlanWithMidpoint EXCEPT !.naturalLanguageQuery = {"quiet"}]

\* A plan whose second participant lost its coordinates to a PATCH.
PlanPartlyGeocoded ==
    [PlanWithMidpoint EXCEPT !.participants[2].coordinates = undefined]

RankedPlans ==
    {PlanWithQuery, PlanPartlyGeocoded,
     [PlanPartlyGeocoded EXCEPT !.naturalLanguageQuery = {"quiet"}],
     [PlanWithMidpoint EXCEPT !.naturalLanguageQuery = {""}]}

\* What the provider answers: places rated 2.5, 4.0 or unrated, without
\* price level.
RankOutcomes ==
    {[ok |-> TRUE, places |-> s] :
        s \in {t \in SeqsUpTo([id : VenueIds, rating : {undefined, {250}, {400}},
                                 priceLevel : {undefined}], MaxVenues) :
                  \A i \in DOMAIN t : t[i].id = i}}

\* No filter, or the threshold 2.0.
RankBodies == {Body(undefined, undefined, undefined), Body(undefined, {200}, undefined)}

InitRank ==
    /\ venuesTable = {}
    /\ plans \in [PlanIds -> RankedPlans]
    /\ req = [h \in Handlers |-> Idle]
    /\ lastUpsert = [v \in VenueIds |-> undefined]
    /\ client = ClientIdle
    /\ planReq = PlanRequestIdle
    /\ estimate = NoEstimate
    /\ RestIdle

NextRank ==
    \/ \E body \in RankBodies : StartSearch(1, "p1", body)
    \/ ScoredHandlerStep(1, RankOutcomes, ScorerReplies)

SpecRank == InitRank /\ [][NextRank]_vars

\* The handler runs on whenever it can, and the provider and the analysis
\* model answer; nothing makes the scoring model answer.
SpecRankLive ==
    /\ InitRank
    /\ [][NextRank]_vars
    /\ WF_vars(HandlerStep(1, RankOutcomes))

----------------------------------------------------------------------------
(* The plan specification: a plan is created, updated and searched *)

\* The provider returns one place rated 4.0; the scoring model fails or
\* scores it.
PlanOutcomes ==
    {[ok |-> TRUE, places |-> <<[id |-> 1, rating |-> {400}, priceLevel |-> undefined]>>]}
PlanReplies ==
    {ScorerFailed,
     [ok |-> TRUE, recs |-> <<[venueId |-> 1, matchScore |-> 50, reasoning |-> undefined,
                               highlights |-> undefined]>>]}

InitPlans ==
    /\ venuesTable = {}
    /\ plans = <<>>
    /\ req = [h \in Handlers |-> Idle]
    /\ lastUpsert = [v \in VenueIds |-> undefined]
    /\ client = ClientIdle
    /\ planReq = PlanRequestIdle
    /\ estimate = NoEstimate
    /\ RestIdle

NextPlans ==
    \/ \E input \in CreateInputs : StartCreatePlan(input)
    \/ \E results \in UNION {[1..n -> GeocodeResults] : n \in 1..2} : GeocodeReply(results)
    \/ \E outcome \in ParserOutcomes : ParserReply(outcome)
    \/ \E id \in PlanIds, updates \in PatchBodies : UpdatePlan(id, updates)
    \/ StartSearch(1, "p1", Body(undefined, undefined, undefined))
    \/ ScoredHandlerStep(1, PlanOutcomes, PlanReplies)

SpecPlans == InitPlans /\ [][NextPlans]_vars

----------------------------------------------------------------------------
(* The home specification: the participant form and POST /api/plans *)

\* Bodies sent to the route without the form: 1, 2, 10 and 11 participants.
DirectCreateInputs ==
    {[participants |-> [i \in 1..n |-> [id |-> i, location |-> "a"]],
      preferences |-> undefined] : n \in {1, 2, 10, 11}}

\* Every location geocodes, or all but the first.
HomeGeocodes ==
    UNION {{[i \in 1..n |-> {Coordinate}],
            [i \in 1..n |-> IF i = 1 THEN GeocodeFailed ELSE {Coordinate}]} : n \in {2, 10}}

InitHome ==
    /\ venuesTable = {}
    /\ plans = <<>>
    /\ req = [h \in Handlers |-> Idle]
    /\ lastUpsert = [v \in VenueIds |-> undefined]
    /\ client = ClientIdle
    /\ planReq = PlanRequestIdle
    /\ estimate = NoEstimate
    /\ RestIdle

\* The user adds entries, removes any entry, types a location into the
\* first two, and submits without or with a preferences text.
NextHome ==
    \/ \E now \in 3..MaxNow : addParticipant(now)
    \/ \E id \in {home.participants[i].id : i \in DOMAIN home.participants} :
           removeParticipant(id)
    \/ \E id \in {1, 2} : updateParticipant(id, "a")
    \/ \E preferences \in {"", "quiet"} : handleSubmit(preferences)
    \/ \E input \in DirectCreateInputs : StartCreatePlan(input)
    \/ \E results \in HomeGeocodes : GeocodeReply(results)
    \/ \E outcome \in ParserOutcomes : ParserReply(outcome)

SpecHome == InitHome /\ [][NextHome]_vars

----------------------------------------------------------------------------
(* The midpoint specification: calculateMidpoint on bounded lists *)

\* Points of the equator a quarter turn apart, and four others: two of one
\* city and the two corners of the coordinate range.
EquatorCoordinates == {[lat |-> 0, lng |-> g] : g \in {0, 90000, 180000, -90000}}
OtherCoordinates ==
    {[lat |-> 40000, lng |-> -74000], [lat |-> 41000, lng |-> -73000],
     [lat |-> -90000, lng |-> -180000], [lat |-> 90000, lng |-> 180000]}
MidpointCoordinates == EquatorCoordinates \cup OtherCoordinates

\* The empty list, every single coordinate, every pair, and every triple
\* of the equator's points.
MidpointLists ==
    {<<>>}
    \cup {<<a>> : a \in MidpointCoordinates}
    \cup {<<a, b>> : a \in MidpointCoordinates, b \in MidpointCoordinates}
    \cup {<<a, b, c>> : a \in EquatorCoordinates, b \in EquatorCoordinates,
                        c \in EquatorCoordinates}

InitMidpoint ==
    /\ venuesTable = {}
    /\ plans = [p \in PlanIds |-> PlanWithMidpoint]
    /\ req = [h \in Handlers |-> Idle]
    /\ lastUpsert = [v \in VenueIds |-> undefined]
    /\ client = ClientIdle
    /\ planReq = PlanRequestIdle
    /\ estimate = NoEstimate
    /\ home = HomeInitial
    /\ geo \in {[GeoIdle EXCEPT !.coordinates = l] : l \in MidpointLists}
    /\ itinerary = ItineraryIdle

NextMidpoint == \E f \in Reorderings(Len(geo.coordinates)) : MidpointCalls(f)

SpecMidpoint == InitMidpoint /\ [][NextMidpoint]_vars

----------------------------------------------------------------------------
(* The itinerary specification: two clients toggle venues of one plan *)

InitItinerary ==
    /\ venuesTable = {}
    /\ plans = [p \in PlanIds |-> PlanWithMidpoint]
    /\ req = [h \in Handlers |-> Idle]
    /\ lastUpsert = [v \in VenueIds |-> undefined]
    /\ client = ClientIdle
    /\ planReq = PlanRequestIdle
    /\ estimate = NoEstimate
    /\ RestIdle

NextItinerary ==
    \/ \E c \in Clients : PlanQueryResolves(c)
    \/ \E c \in Clients, venueId \in VenueIds : addToItinerary(c, venueId)
    \/ \E c \in Clients : PatchSelectedVenues(c)

SpecItinerary == InitItinerary /\ [][NextItinerary]_vars

----------------------------------------------------------------------------
(* Claims on the handler *)

Responded(h) == req[h].pc = "done"
Answered200(h) == req[h].pc = "done" /\ req[h].res.status = 200

\* The venues of handler h as they leave the cache step, before filtering.
Enriched(h) == [i \in DOMAIN req[h].tasks |-> req[h].tasks[i].venue]

Ids(venues) == {venues[i].id : i \in DOMAIN venues}

IsSet(r) == r # {}
ValueOf(r) == CHOOSE x \in r : TRUE

\* C5: a venue search on a plan that has no midpoint is answered with the
\* precondition error (404) and makes no provider search, no cache upsert, no
\* analysis request and no scoring request; the cache is not written.
C5_NoMidpointNoWork ==
    \A h \in Handlers :
        (req[h].pc # "idle" /\ \E p \in req[h].plan : p.midpoint = null)
        => /\ Responded(h)
           /\ req[h].res = ErrorResponse(404)
           /\ req[h].calls = {}
           /\ req[h].tasks = <<>>

C5_Witness ==
    \E h \in Handlers :
        /\ Responded(h)
        /\ \E p \in req[h].plan : p.midpoint = null
        /\ req[h].res.status = 404

\* C8: with a minRating threshold set, every venue of the response is rated
\* at or above the threshold, every searched venue so rated (and not removed
\* by the price filter) is in the response, and no unrated venue is.
C8_MinRating ==
    \A h \in Handlers :
        (Answered200(h) /\ IsSet(req[h].body.minRating))
        => LET m == ValueOf(req[h].body.minRating)
               levels == IF IsSet(req[h].body.priceLevel)
                         THEN ValueOf(req[h].body.priceLevel) ELSE <<>>
               out == req[h].res.venues
               in == Enriched(h)
           IN  /\ \A i \in DOMAIN out : IsSet(out[i].rating) /\ ValueOf(out[i].rating) >= m
               /\ \A i \in DOMAIN in :
                      (/\ IsSet(in[i].rating)
                       /\ ValueOf(in[i].rating) >= m
                       /\ (levels = <<>> \/ \E k \in DOMAIN levels : in[i].priceLevel = {levels[k]}))
                      => in[i].id \in Ids(out)

\* A response to a request with a threshold that kept a venue rated exactly
\* the threshold and dropped a lower-rated and an unrated one.
C8_Witness ==
    \E h \in Handlers :
        /\ Answered200(h)
        /\ IsSet(req[h].body.minRating)
        /\ \E i \in DOMAIN req[h].res.venues :
               req[h].res.venues[i].rating = req[h].body.minRating
        /\ \E i \in DOMAIN req[h].tasks :
               /\ req[h].tasks[i].venue.rating = null
               /\ req[h].tasks[i].venue.id \notin Ids(req[h].res.venues)

\* The venues that remain after the minRating filter of request h.
RemainingIds(h) ==
    {v.id : v \in {w \in Range(Enriched(h)) :
                      IsSet(req[h].body.minRating)
                      => (IsSet(w.rating) /\ ValueOf(w.rating) >= ValueOf(req[h].body.minRating))}}

\* C9: with a non-empty priceLevel set requested, the response holds exactly
\* the remaining venues whose price level is in the set (0 included), each
\* once, and none without a price level; with no set or an empty one, no
\* remaining venue is dropped.
C9_PriceLevel ==
    \A h \in Handlers :
        Answered200(h)
        => LET levels == IF IsSet(req[h].body.priceLevel)
                         THEN ValueOf(req[h].body.priceLevel) ELSE <<>>
               out == req[h].res.venues
               priced == {v.id : v \in {w \in Range(Enriched(h)) :
                                           /\ w.id \in RemainingIds(h)
                                           /\ IsSet(w.priceLevel)
                                           /\ ValueOf(w.priceLevel) \in Range(levels)}}
           IN  /\ Cardinality(Ids(out)) = Len(out)
               /\ Ids(out) = IF Len(levels) > 0 THEN priced ELSE RemainingIds(h)

\* A response to a request for price level 0 that holds a venue of price
\* level 0 and dropped one without a price level.
C9_Witness ==
    \E h \in Handlers :
        /\ Answered200(h)
        /\ req[h].body.priceLevel = {<<0>>}
        /\ \E i \in DOMAIN req[h].res.venues : req[h].res.venues[i].priceLevel = {0}
        /\ \E i \in DOMAIN req[h].tasks :
               /\ req[h].tasks[i].venue.priceLevel = null
               /\ req[h].tasks[i].venue.id \in RemainingIds(h)

\* C10: for a plan without a preference query the response is in descending
\* order of rating, an unrated venue counting as rated 0 and so coming after
\* every rated venue.
C10_RatingOrder ==
    \A h \in Handlers :
        (Answered200(h) /\ \A p \in req[h].plan : p.naturalLanguageQuery = undefined)
        => LET out == req[h].res.venues
               Key(v) == IF IsSet(v.rating) THEN ValueOf(v.rating) ELSE 0
           IN  \A i, j \in DOMAIN out :
                   i < j => /\ Key(out[i]) >= Key(out[j])
                            /\ (IsSet(out[j].rating) => IsSet(out[i].rating))

\* An unfiltered response in which the provider's order was turned round:
\* the provider listed an unrated place before a rated one.
C10_Witness ==
    \E h \in Handlers :
        /\ Answered200(h)
        /\ Len(req[h].res.venues) >= 2
        /\ req[h].tasks[1].venue.rating = null
        /\ IsSet(req[h].res.venues[1].rating)
        /\ req[h].res.venues[Len(req[h].res.venues)].rating = null

----------------------------------------------------------------------------
(* Claims on the Results page's venue query *)

\* The searches of the running or settled query that have been answered.
Answered(i) == i \in DOMAIN client.searches /\ client.searches[i].status # 0

\* Search i was answered with a list of no venues.
YieldedNone(i) ==
    /\ Answered(i)
    /\ client.searches[i].status = 200
    /\ client.searches[i].venues = <<>>

SearchTypes == [i \in DOMAIN client.searches |-> client.searches[i].type]

\* C1: when the primary search is for restaurants and yields zero venues the
\* next search is for cafes; a search for bars is issued only if the cafe
\* search also yielded zero venues; the first non-empty result ends the
\* chain and is the query's result.
C1_FallbackChain ==
    /\ (client.primaryType = {"restaurant"} /\ YieldedNone(1))
       => (Len(client.searches) >= 2 /\ client.searches[2].type = {"cafe"})
    /\ \A i \in DOMAIN client.searches :
           (i > 1 /\ client.searches[i].type = {"bar"})
           => (client.searches[i - 1].type = {"cafe"} /\ YieldedNone(i - 1))
    /\ \A i \in DOMAIN client.searches :
           (Answered(i) /\ client.searches[i].status = 200
                        /\ client.searches[i].venues # <<>>)
           => /\ i = Len(client.searches)
              /\ client.pc = "done"
              /\ client.result = client.searches[i].venues

\* C2: the fallback is decided on the provider's own result, before
\* enrichment and filtering, so a cafe or bar search is issued only when the
\* provider returned no restaurant.
C2_FallbackOnProviderResult ==
    Len(client.searches) >= 2 => client.searches[1].found = 0

\* What holds instead: the fallback is decided on the handler's response,
\* after enrichment and filtering; a cafe search follows the restaurant
\* search exactly when that search was answered with an empty list.
FallbackOnResponse ==
    /\ Len(client.searches) >= 2
       => /\ client.searches[1].type = {"restaurant"}
          /\ YieldedNone(1)
          /\ client.searches[2].type = {"cafe"}
    /\ (client.primaryType = {"restaurant"} /\ YieldedNone(1))
       => Len(client.searches) >= 2

\* The provider returned a restaurant, the minRating filter removed it, and
\* the cafe search was issued.
FallbackOnResponseSeen ==
    /\ Len(client.searches) >= 2
    /\ client.searches[1].found > 0
    /\ YieldedNone(1)

\* C3: when the restaurant, cafe and bar searches are all answered with zero
\* venues, the query settles successfully with the empty list after exactly
\* those three searches.
C3_AllEmpty ==
    (/\ client.pc = "done"
     /\ client.primaryType = {"restaurant"}
     /\ \A i \in DOMAIN client.searches : YieldedNone(i))
    => /\ SearchTypes = <<{"restaurant"}, {"cafe"}, {"bar"}>>
       /\ client.result = <<>>
       /\ client.outcome = "success"

C3_Witness ==
    /\ client.pc = "done"
    /\ Len(client.searches) = 3
    /\ \A i \in DOMAIN client.searches : YieldedNone(i)
    /\ client.result = <<>>

\* C4: when the provider fails during a search of the query, primary or
\* fallback, the handler answers with an error and the query settles with a
\* failure, not with a list.
C4_FailureSurfaced ==
    /\ \A h \in Handlers :
           (Responded(h) /\ "searchNearby" \in req[h].calls /\ req[h].tasks = <<>>
                         /\ req[h].res.status = 200)
           => req[h].api = <<>>
    /\ (client.pc = "done" /\ \E i \in DOMAIN client.searches :
                                  client.searches[i].status \notin {0, 200})
       => client.outcome = "error"

----------------------------------------------------------------------------
(* Claims on the venue cache *)

RowsOf(id) == {r \in venuesTable : r.id = id}

\* The row of id carries the rating and the price level of payload.
Mirrors(id, payload) ==
    \A r \in RowsOf(id) : r.rating = payload.rating /\ r.priceLevel = payload.priceLevel

\* C6: after any sequence of upserts the cache holds at most one row per
\* identifier, and the row's refreshable fields (rating, price level) equal
\* those of the most recent upsert of that identifier.
C6_UpsertRefreshes ==
    \A id \in VenueIds :
        /\ Cardinality(RowsOf(id)) <= 1
        /\ \A payload \in lastUpsert[id] :
               RowsOf(id) # {} /\ Mirrors(id, payload)

\* C7: once the concurrent searches have all been answered, the cache holds
\* exactly one row for an identifier they upserted, and the row's provider
\* fields are those of the upsert that completed last.
C7_LastWriteWins ==
    (\A h \in Handlers : Answered200(h))
    => \A id \in VenueIds :
           \A payload \in lastUpsert[id] :
               Cardinality(RowsOf(id)) = 1 /\ Mirrors(id, payload)

\* What does hold of the cache, in every state of every specification: one
\* row per identifier at most, and every field the last upsert's payload
\* carries is the row's.
CacheOneRowPerId ==
    \A id \in VenueIds : Cardinality(RowsOf(id)) <= 1

CacheCarriedFieldsWin ==
    \A id \in VenueIds :
        \A payload \in lastUpsert[id] :
            /\ Cardinality(RowsOf(id)) = 1
            /\ \A r \in RowsOf(id) :
                   /\ payload.rating # undefined => r.rating = payload.rating
                   /\ payload.priceLevel # undefined => r.priceLevel = payload.priceLevel

----------------------------------------------------------------------------
(* Claims on ranking and enrichment *)

\* The reply the scoring call of handler h resolved to.
Scored(h) == Answered200(h) /\ req[h].reply # undefined
ReplyOf(h) == CHOOSE r \in req[h].reply : TRUE

\* Venue v of the response carries what rec says, the score brought into 0..100.
Carries(v, rec) ==
    LET a == v.aiRecommendation
    IN  /\ rec.venueId = v.id
        /\ (0 <= rec.matchScore /\ rec.matchScore <= 100) => a.matchScore = rec.matchScore
        /\ rec.matchScore > 100 => a.matchScore = 100
        /\ rec.matchScore < 0 => a.matchScore = 0
        /\ rec.reasoning # undefined => {a.reasoning} = rec.reasoning
        /\ rec.highlights # undefined => {a.highlights} = rec.highlights

\* C11: when the plan carries a preference query and the scoring call
\* succeeds, the response is in descending order of match score, every match
\* score lies in 0..100, and every venue carries the score, reasoning and
\* highlights of a rec the scorer gave for that venue's identifier.
C11_ScoreOrder ==
    \A h \in Handlers :
        (Scored(h) /\ ReplyOf(h).ok)
        => LET out == req[h].res.venues
           IN  /\ \A i, j \in DOMAIN out :
                      i < j => out[i].aiRecommendation.matchScore
                                   >= out[j].aiRecommendation.matchScore
               /\ \A i \in DOMAIN out :
                      /\ 0 <= out[i].aiRecommendation.matchScore
                      /\ out[i].aiRecommendation.matchScore <= 100
                      /\ \E k \in DOMAIN ReplyOf(h).recs :
                             Carries(out[i], ReplyOf(h).recs[k])

\* Two venues were scored, one above 100, and the response lists them by
\* their different scores.
C11_Witness ==
    \E h \in Handlers :
        /\ Scored(h) /\ ReplyOf(h).ok
        /\ Len(req[h].res.venues) = 2
        /\ req[h].res.venues[1].id # req[h].res.venues[2].id
        /\ req[h].res.venues[1].aiRecommendation.matchScore = 100
        /\ req[h].res.venues[2].aiRecommendation.matchScore = 50
        /\ \E k \in DOMAIN ReplyOf(h).recs : ReplyOf(h).recs[k].matchScore > 100

\* C12: when the plan carries a preference query, the response holds every
\* venue that passed the filters exactly once, with its travel estimates.
C12_ScoringKeepsVenues ==
    \A h \in Handlers :
        Scored(h)
        => LET out == req[h].res.venues
               kept == req[h].venues
           IN  \A i \in DOMAIN kept :
                   /\ Cardinality({j \in DOMAIN out : out[j].id = kept[i].id}) = 1
                   /\ \A j \in DOMAIN out :
                          out[j].id = kept[i].id
                          => out[j].travelTimes = kept[i].travelTimes

\* C13: when the scoring call fails, the response lists the filtered venues
\* in the order of the rating sort (unrated venues as 0, last).
C13_ScoringFailureRatingOrder ==
    \A h \in Handlers :
        (Scored(h) /\ ~ReplyOf(h).ok)
        => LET out == req[h].res.venues
               byRating == SortByRating(req[h].venues)
           IN  /\ Len(out) = Len(byRating)
               /\ \A i \in DOMAIN out : out[i].id = byRating[i].id

\* C14: a venue search that has started is answered, whether or not the
\* scoring model ever answers.
C14_AlwaysResponds ==
    \A h \in {1} : (req[h].pc # "idle") ~> Responded(h)

\* C15: when analyzeVenue fails for a venue (it resolves to its fallback),
\* the search is not failed by it, and the venue goes on through travel
\* estimates, filters and ranking with no analysis payload.
C15_AnalysisFailureNoPayload ==
    \A h \in Handlers :
        /\ (req[h].pc = "done" /\ req[h].tasks # <<>>) => req[h].res.status = 200
        /\ \A i \in DOMAIN req[h].tasks :
               (req[h].tasks[i].pc = "done" /\ "analyzeVenue" \in req[h].calls
                    /\ req[h].tasks[i].venue.aiAnalysis = {"fallback"})
               => \A j \in DOMAIN req[h].res.venues :
                      req[h].res.venues[j].id = req[h].tasks[i].venue.id
                      => req[h].res.venues[j].aiAnalysis = null

\* The identifiers of the participants a venue has a travel estimate for,
\* in order.
EstimatedFor(v) == [k \in DOMAIN v.travelTimes |-> v.travelTimes[k].participantId]

\* C16: every venue of a response carries exactly one travel estimate for
\* each participant of the plan that has coordinates and none for a
\* participant without; a participant without coordinates fails no search.
C16_TravelEstimates ==
    \A h \in Handlers :
        /\ Answered200(h)
           => \A i \in DOMAIN req[h].res.venues :
                  \A p \in req[h].plan :
                      \A k \in DOMAIN p.participants :
                          Cardinality({e \in DOMAIN req[h].res.venues[i].travelTimes :
                                          EstimatedFor(req[h].res.venues[i])[e]
                                              = p.participants[k].id})
                            = IF p.participants[k].coordinates = undefined THEN 0 ELSE 1
        /\ (req[h].pc = "done" /\ "searchNearby" \in req[h].calls /\ req[h].api # <<>>)
           => req[h].res.status = 200

\* A plan with a participant without coordinates was searched, by rating
\* and by score, and a venue came back with the one estimate.
C16_Witness ==
    \E h \in Handlers :
        /\ Answered200(h)
        /\ \E p \in req[h].plan :
               \E k \in DOMAIN p.participants : p.participants[k].coordinates = undefined
        /\ req[h].res.venues # <<>>
        /\ Len(req[h].res.venues[1].travelTimes) = 1

----------------------------------------------------------------------------
(* Claims on travel estimates *)

\* C17: the minutes of a travel estimate are distance_km * 0.621371 / 30 * 60
\* rounded to the nearest integer (distance in units of 10 m: the factor is
\* 0.01242742), 0 when participant and venue coincide, and never less than
\* the minutes of a venue that is nearer to the participant.
C17_TimeMinutes ==
    estimate.pc = "done"
    => /\ Abs(estimate.distance * 1242742 - estimate.timeMinutes * 100000000) <= 50000000
       /\ estimate.participant = estimate.venue => estimate.timeMinutes = 0
       /\ \A t \in 0..MaxLat :
              LET other == IF estimate.participant.lng = 0 /\ estimate.venue.lng = 0
                           THEN [lat |-> t, lng |-> 0]
                           ELSE [lat |-> 0, lng |-> t]
                  nearer == calculateDistance(estimate.participant, other)
              IN  nearer <= estimate.distance => TimeMinutes(nearer) <= estimate.timeMinutes

\* An estimate that was rounded up, of ten minutes or more.
C17_Witness ==
    /\ estimate.pc = "done"
    /\ estimate.timeMinutes >= 10
    /\ estimate.timeMinutes * 100000000 > estimate.distance * 1242742

----------------------------------------------------------------------------
(* Claims on plans *)

FullyGeocoded(plan) ==
    /\ plan.midpoint # null
    /\ \A i \in DOMAIN plan.participants : plan.participants[i].coordinates # undefined

\* C18: when geocoding fails for a participant, plan creation is answered with
\* an error and stores no plan; and every plan that plan creation stores has
\* coordinates on every participant and a midpoint.
C18_PlanNeedsEveryGeocode ==
    /\ [](\A i \in DOMAIN planReq.geocoded :
              planReq.geocoded[i] = GeocodeFailed
              => (planReq.status = 400 /\ planReq.created = undefined /\ DOMAIN plans = {}))
    /\ [][\A id \in DOMAIN plans' \ DOMAIN plans : FullyGeocoded(plans'[id])]_vars

\* One of two locations failed to geocode, and the request was answered 400.
C18_Witness ==
    /\ planReq.pc = "done"
    /\ planReq.status = 400
    /\ Len(planReq.geocoded) = 2
    /\ planReq.geocoded[1] # GeocodeFailed
    /\ planReq.geocoded[2] = GeocodeFailed
    /\ DOMAIN plans = {}

\* C19: once a plan is stored, no later operation changes its participants
\* or its midpoint.
C19_ParticipantsAndMidpointFrozen ==
    [][\A id \in DOMAIN plans :
          /\ id \in DOMAIN plans'
          /\ plans'[id].participants = plans[id].participants
          /\ plans'[id].midpoint = plans[id].midpoint]_vars

\* Plan creation completes in this step with a profile whose parsing failed.
StoredAfterFailedParse ==
    /\ planReq.pc = "parse"
    /\ planReq'.pc = "done"
    /\ planReq'.parsed = {"failed"}

\* C20: when parsing the preference query fails, plan creation is answered
\* 200 and stores the query with empty structured hints; no venue search
\* calls the parser, and no step of a venue search writes the plan.
C20_ParseFailureKeepsQuery ==
    /\ [][StoredAfterFailedParse
          => /\ planReq'.status = 200
             /\ \A id \in planReq'.created :
                    /\ id \in DOMAIN plans'
                    /\ \A x \in (CHOOSE i \in planReq.input : TRUE).preferences :
                           plans'[id].naturalLanguageQuery = x.naturalLanguageQuery
                    /\ plans'[id].hints = {NoHints}]_vars
    /\ [](\A h \in Handlers : "parseUserPreferences" \notin req[h].calls)
    /\ [][req' # req => plans' = plans]_vars

\* The plan was created with a query whose parsing failed, stored with the
\* query and no hints, and a venue search on it was answered.
C20_Witness ==
    /\ planReq.pc = "done"
    /\ planReq.parsed = {"failed"}
    /\ \E id \in planReq.created :
           /\ id \in DOMAIN plans
           /\ plans[id].naturalLanguageQuery = {"quiet"}
           /\ plans[id].hints = {NoHints}
    /\ Answered200(1)

----------------------------------------------------------------------------
(* Claims on the participant form and on plan creation *)

\* Every stored plan has between 2 and 10 participants, and a request with
\* fewer than 2 or more than 10 leaves the plans table as it was.
CreationWithinBounds ==
    /\ \A p \in DOMAIN plans : Len(plans[p].participants) \in 2..10
    /\ \A x \in planReq.input :
           Len(x.participants) \notin 2..10 =>
               plans = <<>> /\ planReq.created = undefined /\ planReq.pc = "done"

\* The form holds between 2 and 10 entries.
FormWithinBounds == Len(home.participants) \in 2..10

\* C21: a plan is stored only with between 2 and 10 participants, a create
\* request with fewer than 2 or more than 10 is rejected without storing
\* anything, and after any sequence of add and remove actions the
\* participant form holds between 2 and 10 entries.
C21_ParticipantBounds == CreationWithinBounds /\ FormWithinBounds

----------------------------------------------------------------------------
(* Claims on calculateMidpoint *)

MidpointCalled == geo.pc = "done"

\* C22: called with an empty list, calculateMidpoint fails with its
\* invalid-input error and returns no coordinate, on the server and on the
\* client.
C22_EmptyListThrows ==
    MidpointCalled /\ geo.coordinates = <<>> =>
        /\ geo.midpoint.thrown /\ geo.midpoint.returned = undefined
        /\ geo.preview.thrown /\ geo.preview.returned = undefined

C22_Witness ==
    MidpointCalled /\ geo.coordinates = <<>> /\ geo.midpoint.thrown /\ geo.preview.thrown

\* C23: for every list of one coordinate, calculateMidpoint returns exactly
\* that coordinate, on the server and on the client.
C23_SingleCoordinate ==
    MidpointCalled /\ Len(geo.coordinates) = 1 =>
        /\ geo.midpoint = [thrown |-> FALSE, returned |-> {geo.coordinates[1]}]
        /\ geo.preview = [thrown |-> FALSE, returned |-> {geo.coordinates[1]}]

C23_Witness ==
    /\ MidpointCalled
    /\ Len(geo.coordinates) = 1
    /\ geo.coordinates[1].lat # geo.coordinates[1].lng
    /\ geo.midpoint.returned = {geo.coordinates[1]}

InRange(coord) ==
    /\ -90000 <= coord.lat /\ coord.lat <= 90000
    /\ -180000 <= coord.lng /\ coord.lng <= 180000

\* C24: for every pair of coordinates, calculateMidpoint returns the
\* coordinate whose latitude is the arithmetic mean of the two latitudes and
\* whose longitude is the arithmetic mean of the two longitudes, and the
\* result is within -90..90 and -180..180 degrees when both inputs are.
C24_MeanOfTwo ==
    MidpointCalled /\ Len(geo.coordinates) = 2 =>
        /\ ~geo.midpoint.thrown
        /\ geo.midpoint.returned # undefined
        /\ \A m \in geo.midpoint.returned :
               /\ 2 * m.lat = geo.coordinates[1].lat + geo.coordinates[2].lat
               /\ 2 * m.lng = geo.coordinates[1].lng + geo.coordinates[2].lng
               /\ (InRange(geo.coordinates[1]) /\ InRange(geo.coordinates[2]) => InRange(m))

C24_Witness ==
    /\ MidpointCalled
    /\ Len(geo.coordinates) = 2
    /\ geo.coordinates[1].lat # geo.coordinates[2].lat
    /\ geo.coordinates[1].lng # geo.coordinates[2].lng
    /\ InRange(geo.coordinates[1]) /\ InRange(geo.coordinates[2])
    /\ geo.midpoint.returned = {[lat |-> 40500, lng |-> -73500]}

----------------------------------------------------------------------------
(* Claims on calculateDistance *)

----------------------------------------------------------------------------
(* Claims on the order of the handler's steps *)

\* The venues of handler h with their travel estimates, before the filters.
Estimated(h) ==
    [i \in DOMAIN req[h].tasks |->
        WithTravelTimes(req[h].tasks[i].venue, CHOOSE p \in req[h].plan : TRUE)]

\* C27: within one venue-search request the steps never overlap: no travel
\* estimate is computed before every venue has finished its cache upsert and
\* analysis, no filtering starts before every venue has its travel
\* estimates, and the ranking operates only on the complete filtered list.
C27_StepsInOrder ==
    [][\A h \in Handlers :
          /\ (req[h].pc = "cache" /\ req'[h].pc # "cache")
             => /\ \A i \in DOMAIN req[h].tasks : req[h].tasks[i].pc = "done"
                /\ Len(req[h].tasks) = Len(req[h].api)
                /\ req'[h].venues = Estimated(h)
          /\ (req[h].pc = "filter" /\ req'[h].pc # "filter")
             => /\ req[h].venues = Estimated(h)
                /\ req'[h].venues = ApplyFilters(Estimated(h), req[h].body)
          /\ (req[h].pc = "rank" /\ req'[h].pc # "rank")
             => req[h].venues = ApplyFilters(Estimated(h), req[h].body)
          /\ (req[h].pc \in {"filter", "rank", "done"})
             => req'[h].tasks = req[h].tasks /\ req'[h].api = req[h].api
      ]_vars

\* A search of two places, both upserted and analysed, one of them dropped
\* by the filter, was answered.
C27_Witness ==
    /\ Answered200(1)
    /\ Len(req[1].api) = 2
    /\ \A i \in DOMAIN req[1].tasks : req[1].tasks[i].pc = "done"
    /\ "analyzeVenue" \in req[1].calls
    /\ Len(req[1].venues) = 1
    /\ Len(req[1].res.venues) = 1

----------------------------------------------------------------------------
(* Claims on the cached analysis *)

\* The cache holds an analysis for the place of this id.
Analysed(table, id) == \E r \in table : r.id = id /\ r.aiAnalysis # null

\* C28: a cached analysis is kept and reused: a venue whose cache record
\* already holds an analysis is not sent to analyzeVenue again by a later
\* search, and upserting the venue again leaves the stored analysis
\* unchanged.
C28_AnalysisKept ==
    [][\A h \in Handlers, i \in VenueIds :
          (/\ i \in DOMAIN req[h].tasks
           /\ req[h].tasks[i].pc = "upsert"
           /\ req'[h].tasks[i].pc # "upsert"
           /\ Analysed(venuesTable, req[h].api[i].id))
          => /\ RowOf(venuesTable', req[h].api[i].id).aiAnalysis
                    = RowOf(venuesTable, req[h].api[i].id).aiAnalysis
             /\ req'[h].tasks[i].pc = "done"
             /\ req'[h].tasks[i].venue.aiAnalysis
                    = RowOf(venuesTable, req[h].api[i].id).aiAnalysis
      ]_vars

\* The second request found the analysis of the first in the cache and was
\* answered with it, without a call of analyzeVenue.
C28_Witness ==
    /\ Answered200(1)
    /\ "analyzeVenue" \in req[1].calls
    /\ Answered200(2)
    /\ "upsertVenue" \in req[2].calls
    /\ "analyzeVenue" \notin req[2].calls
    /\ req[2].res.venues # <<>>
    /\ req[2].res.venues[1].aiAnalysis # null
    /\ Analysed(venuesTable, 1)

----------------------------------------------------------------------------
(* Claims on the itinerary *)

\* C29: itinerary updates of different clients do not overwrite each other:
\* when one client has toggled venue 1 and another venue 2 on a plan with no
\* selected venue, then after both updates have completed, in any
\* interleaving, the plan's selected venues are both of them.
C29_BothTogglesKept ==
    (/\ itinerary["A"].log = <<1>>
     /\ itinerary["B"].log = <<2>>
     /\ \A c \in Clients : itinerary[c].pc # "patching")
    => Range(plans["p1"].selectedVenues) = {1, 2}

----------------------------------------------------------------------------
(* Claims on the settling of the venue query *)

\* No search is in flight and none will start without the user.
Settled ==
    \/ client.pc = "idle" /\ ~HasMidpoint(getPlan(plans, "p1"))
    \/ client.pc = "done" /\ ~client.dirty

\* C30: the client's venue searching always settles: one run of the query
\* issues at most three searches, and exactly one unless the single
\* selected type is "restaurant"; the filter change of a successful
\* fallback causes at most one further run, which cannot fall back again;
\* so every behaviour ends with no search in flight and none to come.
C30_SearchSettles ==
    /\ [](/\ Len(client.searches) <= 3
          /\ client.queries <= 2
          /\ (client.pc = "done" /\ client.primaryType # {"restaurant"})
             => Len(client.searches) = 1 /\ ~client.dirty)
    /\ [][(client.pc = "done" /\ client'.pc # "done")
          => /\ client.dirty
             /\ client.queries = 1
             /\ client'.primaryType \in {{"cafe"}, {"bar"}}]_vars
    /\ <>[]Settled

\* The fallback to bars succeeded after three searches, the query ran once
\* more with the type bar, by one search, and the page is at rest.
C30_Witness ==
    /\ Settled
    /\ client.queries = 2
    /\ client.venueTypes = <<"bar">>
    /\ Len(client.searches) = 1
    /\ client.searches[1].type = {"bar"}

====
